---- MODULE Spec2Model ----
(***************************************************************************)
(* Model of TranscribeLargeFile20250308.py: main, the single-shot path    *)
(* and the chunked path transcribe_large_audio_parallel with its          *)
(* ThreadPoolExecutor.  Strings are sequences of one-character strings.   *)
(* Audio content is a millisecond range <<start, end>> of the decoded     *)
(* source; the transcription engine is a function of the content it is    *)
(* given (a deterministic engine).                                        *)
(***************************************************************************)
EXTENDS Integers, Sequences, FiniteSets, TLC

\* ------------------------------------------------------------------ bounds
MaxFullChunks == 1      \* whole 60000 ms chunks in a source (pipeline runs)
MaxRemainder == 1       \* ms after the last whole chunk (pipeline runs)
MaxWorkers == 2         \* threads of the pool: one, or this many
MaxDuration == 12       \* duration D of the split_audio specification
MaxChunkLength == 5     \* chunk length C of the split_audio specification

\* ------------------------------------------------------- program constants
DefaultChunkLengthMs == 60000
SizeThresholdMb == 100
BytesPerMb == 1024 * 1024

MaxSegments == MaxFullChunks + 1

Whitespace == {" "}

SupportedExtensions == {".mp3", ".mp4", ".wav", ".flac"}
Extensions == SupportedExtensions \cup {".txt"}

NoError == [kind |-> "none", ordinal |-> -1]
Error(k) == [kind |-> k, ordinal |-> -1]
ChunkError(k, i) == [kind |-> k, ordinal |-> i]

NoFile == [path |-> <<>>, content |-> <<>>, written |-> FALSE]

Min(a, b) == IF a < b THEN a ELSE b

\* ------------------------------------------------------------------ strings
RECURSIVE LStrip(_)
LStrip(s) == IF s # <<>> /\ Head(s) \in Whitespace THEN LStrip(Tail(s)) ELSE s

RECURSIVE RStrip(_)
RStrip(s) ==
    IF s # <<>> /\ s[Len(s)] \in Whitespace
    THEN RStrip(SubSeq(s, 1, Len(s) - 1))
    ELSE s

\* str.strip()
Strip(s) == RStrip(LStrip(s))

\* the texts the engine returns in the runs explored: empty, blank, plain,
\* with leading and with trailing whitespace
Texts == {<<>>, <<" ">>, <<"a">>, <<" ", "b">>, <<"a", " ">>}

\* what one call of model.transcribe does: a text, or it raises
Outcomes == {[ok |-> TRUE, text |-> t] : t \in Texts}
            \cup {[ok |-> FALSE, text |-> <<>>]}

\* ------------------------------------------------------------- split_audio
\* len(range(start, stop, step)) for step > 0
RangeLen_OffByOne(start, stop, step) == (stop - start) \div step + 1

RangeLen(start, stop, step) ==
    IF stop > start THEN (stop - start + step - 1) \div step ELSE 0

\* range(start, stop, step) as a sequence
Range(start, stop, step) ==
    [k \in 1..RangeLen(start, stop, step) |-> start + (k - 1) * step]

\* audio[i:j] of an audio of length len: both ends are clamped to len
Slice(len, i, j) == <<Min(i, len), Min(j, len)>>

split_audio_DropPartial(len, chunk_length_ms) ==
    [k \in 1..(len \div chunk_length_ms) |->
        <<(k - 1) * chunk_length_ms, k * chunk_length_ms>>]

split_audio(len, chunk_length_ms) ==
    LET starts == Range(0, len, chunk_length_ms)
    IN  [k \in 1..Len(starts) |-> Slice(len, starts[k], starts[k] + chunk_length_ms)]

\* ----------------------------------------------------------- is_large_file
is_large_file(size_bytes) == size_bytes > SizeThresholdMb * BytesPerMb

FileSizes == {SizeThresholdMb * BytesPerMb, SizeThresholdMb * BytesPerMb + 1}

\* f"temp_chunk_{i}.mp3"
TempChunkPath(i) == <<"temp_chunk_", i, ".mp3">>

\* file_path.rsplit('.', 1)[0] + '_transcription.txt'
OutputPath(fp) == fp.stem \o <<"_transcription.txt">>

Durations ==
    {q * DefaultChunkLengthMs + r : q \in 0..MaxFullChunks, r \in 0..MaxRemainder}

\* the contents a run hands to the engine
EngineInputs(size, d) ==
    IF is_large_file(size)
    THEN {split_audio(d, DefaultChunkLengthMs)[k] :
             k \in 1..Len(split_audio(d, DefaultChunkLengthMs))}
    ELSE {<<0, d>>}

VARIABLES
    exists,             \* os.path.exists(file_path) of the entered path
    ext,                \* Path(file_path).suffix.lower() of the entered path
    file_size,          \* os.path.getsize(file_path)
    duration,           \* len(audio) in ms
    chunk_length_ms,    \* parameter of split_audio
    engine,             \* content -> outcome of model.transcribe
    max_workers,        \* threads of ThreadPoolExecutor()
    pc,                 \* position of the main thread
    file_path,          \* main's file_path
    chunks,             \* split_audio's result
    chunk_paths,
    temp_files,         \* path -> content of the temp files on disk
    futures,            \* the executor's futures, in submission order
    completion_order,   \* indices of futures in the order the tasks ended
    collected,          \* futures consumed by the result loop
    full_transcription,
    removed,            \* chunk_paths consumed by the cleanup loop
    exc,                \* exception in flight / caught
    transcription,
    output_file,
    error_logged

inputs == <<exists, ext, file_size, duration, chunk_length_ms, engine, max_workers>>
chunked == <<chunks, chunk_paths, temp_files, futures, completion_order,
             collected, full_transcription, removed>>
mainv == <<pc, file_path, exc, transcription, output_file, error_logged>>
vars == <<inputs, chunked, mainv>>

Finished == {"done", "failed", "cancelled"}

AllFinished == \A i \in DOMAIN futures : futures[i].state \in Finished

Running == {i \in DOMAIN futures : futures[i].state = "running"}

InitRun ==
    /\ file_path = [stem |-> <<"stem">>, ext |-> ext]
    /\ chunks = <<>>
    /\ chunk_paths = <<>>
    /\ temp_files = <<>>
    /\ futures = <<>>
    /\ completion_order = <<>>
    /\ collected = 0
    /\ full_transcription = <<>>
    /\ removed = 0
    /\ exc = NoError
    /\ transcription = <<>>
    /\ output_file = NoFile
    /\ error_logged = FALSE

Init ==
    /\ exists \in BOOLEAN
    /\ ext \in Extensions
    /\ file_size \in FileSizes
    /\ duration \in Durations
    /\ chunk_length_ms = DefaultChunkLengthMs
    /\ engine \in [EngineInputs(file_size, duration) -> Outcomes]
    /\ max_workers \in {1, MaxWorkers}
    /\ pc = "validate"
    /\ InitRun

\* ------------------------------------------------------------------- main
\* validate_file_path
ValidateFilePath ==
    /\ pc = "validate"
    /\ IF ~exists
       THEN exc' = Error("FileNotFoundError") /\ pc' = "except"
       ELSE IF ext \notin SupportedExtensions
            THEN exc' = Error("ValueError") /\ pc' = "except"
            ELSE exc' = exc /\ pc' = "size_check"
    /\ UNCHANGED <<inputs, chunked, file_path, transcription, output_file, error_logged>>

\* if is_large_file(file_path): ... else: ...
IsLargeFile ==
    /\ pc = "size_check"
    /\ pc' = IF is_large_file(file_size) THEN "split" ELSE "prepare"
    /\ UNCHANGED <<inputs, chunked, file_path, exc, transcription, output_file, error_logged>>

\* extract_audio_from_video, for .mp4
ExtractAudioFromVideo ==
    /\ pc = "prepare"
    /\ ext = ".mp4"
    /\ \E exit_code \in {0, 1} :
          IF exit_code # 0
          THEN /\ exc' = Error("Exception")
               /\ pc' = "except"
               /\ file_path' = file_path
          ELSE /\ file_path' = [stem |-> file_path.stem \o <<"_temp">>, ext |-> ".mp3"]
               /\ pc' = "transcribe"
               /\ exc' = exc
    /\ UNCHANGED <<inputs, chunked, transcription, output_file, error_logged>>

\* convert_audio_format, for .wav and .flac
ConvertAudioFormat ==
    /\ pc = "prepare"
    /\ ext \notin {".mp3", ".mp4"}
    /\ file_path' = [stem |-> file_path.stem, ext |-> ".mp3"]
    /\ pc' = "transcribe"
    /\ UNCHANGED <<inputs, chunked, exc, transcription, output_file, error_logged>>

\* .mp3 is transcribed as it is
NoConversion ==
    /\ pc = "prepare"
    /\ ext = ".mp3"
    /\ pc' = "transcribe"
    /\ UNCHANGED <<inputs, chunked, file_path, exc, transcription, output_file, error_logged>>

\* transcribe_audio(content): result["text"], or the engine raises
transcribe_audio(content) == engine[content]

\* transcription = transcribe_audio(file_path), single-shot path
TranscribeAudio ==
    /\ pc = "transcribe"
    /\ LET r == transcribe_audio(<<0, duration>>)
       IN  IF r.ok
           THEN transcription' = r.text /\ pc' = "save" /\ exc' = exc
           ELSE transcription' = transcription /\ pc' = "except"
                /\ exc' = Error("TranscriptionFailure")
    /\ UNCHANGED <<inputs, chunked, file_path, output_file, error_logged>>

\* with open(output_path, 'w') as f: f.write(transcription)
SaveTranscription ==
    /\ pc = "save"
    /\ output_file' = [path |-> OutputPath(file_path), content |-> transcription,
                       written |-> TRUE]
    /\ pc' = "done"
    /\ UNCHANGED <<inputs, chunked, file_path, exc, transcription, error_logged>>

HandleException_WritesOutput ==
    /\ pc = "except"
    /\ error_logged' = TRUE
    /\ output_file' = [path |-> OutputPath(file_path), content |-> transcription,
                       written |-> TRUE]
    /\ pc' = "done"
    /\ UNCHANGED <<inputs, chunked, file_path, exc, transcription>>

\* except Exception as e: logging.error(...)
HandleException ==
    /\ pc = "except"
    /\ error_logged' = TRUE
    /\ pc' = "done"
    /\ UNCHANGED <<inputs, chunked, file_path, exc, transcription, output_file>>

\* -------------------------------------- transcribe_large_audio_parallel
\* chunks = split_audio(file_path); full_transcription = ""; chunk_paths = []
SplitAudio ==
    /\ pc = "split"
    /\ chunks' = split_audio(duration, chunk_length_ms)
    /\ full_transcription' = <<>>
    /\ chunk_paths' = <<>>
    /\ pc' = "export"
    /\ UNCHANGED <<inputs, temp_files, futures, completion_order, collected, removed,
                   file_path, exc, transcription, output_file, error_logged>>

\* one turn of the export loop: chunk.export(chunk_path); chunk_paths.append
ExportChunk ==
    /\ pc = "export"
    /\ Len(chunk_paths) < Len(chunks)
    /\ LET i == Len(chunk_paths)
           chunk_path == TempChunkPath(i)
       IN  /\ temp_files' = [p \in DOMAIN temp_files \cup {chunk_path} |->
                               IF p = chunk_path THEN chunks[i + 1] ELSE temp_files[p]]
           /\ chunk_paths' = Append(chunk_paths, chunk_path)
    /\ UNCHANGED <<inputs, chunks, futures, completion_order, collected,
                   full_transcription, removed, mainv>>

ExportDone_Streamed ==
    /\ pc = "export"
    /\ Len(chunk_paths) >= Min(1, Len(chunks))
    /\ pc' = "submit"
    /\ UNCHANGED <<inputs, chunked, file_path, exc, transcription, output_file, error_logged>>

\* the export loop ends; with ThreadPoolExecutor() as executor: futures = []
ExportDone ==
    /\ pc = "export"
    /\ Len(chunk_paths) = Len(chunks)
    /\ pc' = "submit"
    /\ UNCHANGED <<inputs, chunked, file_path, exc, transcription, output_file, error_logged>>

\* one turn of the submit loop: futures.append(executor.submit(transcribe_audio, chunk_path))
SubmitTask ==
    /\ pc = "submit"
    /\ Len(futures) < Len(chunk_paths)
    /\ futures' = Append(futures, [path |-> chunk_paths[Len(futures) + 1],
                                   state |-> "pending", text |-> <<>>])
    /\ UNCHANGED <<inputs, chunks, chunk_paths, temp_files, completion_order, collected,
                   full_transcription, removed, mainv>>

SubmitDone_CleanupFirst ==
    /\ pc = "submit"
    /\ Len(futures) = Len(chunk_paths)
    /\ pc' = "cleanup"
    /\ UNCHANGED <<inputs, chunked, file_path, exc, transcription, output_file, error_logged>>

\* the submit loop ends
SubmitDone ==
    /\ pc = "submit"
    /\ Len(futures) = Len(chunk_paths)
    /\ pc' = "collect"
    /\ UNCHANGED <<inputs, chunked, file_path, exc, transcription, output_file, error_logged>>

NextFuture_AsCompleted ==
    IF collected < Len(completion_order)
    THEN completion_order[collected + 1]
    ELSE collected + 1

\* for future in futures: the future the result loop takes next
NextFuture == collected + 1

\* one turn of the result loop: full_transcription += future.result() + " ";
\* result() blocks until the task has ended and re-raises its exception
CollectResult ==
    /\ pc = "collect"
    /\ collected < Len(futures)
    /\ LET future == futures[NextFuture]
       IN  /\ future.state \in Finished
           /\ IF future.state = "done"
              THEN /\ full_transcription' = full_transcription \o future.text \o <<" ">>
                   /\ collected' = collected + 1
                   /\ pc' = pc
                   /\ exc' = exc
              ELSE /\ exc' = ChunkError("TranscriptionFailure", NextFuture - 1)
                   /\ pc' = "shutdown"
                   /\ UNCHANGED <<full_transcription, collected>>
    /\ UNCHANGED <<inputs, chunks, chunk_paths, temp_files, futures, completion_order,
                   removed, file_path, transcription, output_file, error_logged>>

\* the result loop ends
CollectDone ==
    /\ pc = "collect"
    /\ collected = Len(futures)
    /\ pc' = "shutdown"
    /\ UNCHANGED <<inputs, chunked, file_path, exc, transcription, output_file, error_logged>>

ExecutorExit_NoWait ==
    /\ pc = "shutdown"
    /\ pc' = IF exc # NoError THEN "except" ELSE "cleanup"
    /\ UNCHANGED <<inputs, chunked, file_path, exc, transcription, output_file, error_logged>>

ExecutorExit_CancelFutures ==
    /\ pc = "shutdown"
    /\ Running = {}
    /\ futures' = [i \in DOMAIN futures |->
                     IF futures[i].state = "pending"
                     THEN [futures[i] EXCEPT !.state = "cancelled"]
                     ELSE futures[i]]
    /\ pc' = IF exc # NoError THEN "except" ELSE "cleanup"
    /\ UNCHANGED <<inputs, chunks, chunk_paths, temp_files, completion_order, collected,
                   full_transcription, removed, file_path, exc, transcription,
                   output_file, error_logged>>

\* ThreadPoolExecutor.__exit__: shutdown(wait=True) joins the workers, which
\* run every queued task first; then the exception, if any, leaves the function
ExecutorExit ==
    /\ pc = "shutdown"
    /\ AllFinished
    /\ pc' = IF exc # NoError THEN "except" ELSE "cleanup"
    /\ UNCHANGED <<inputs, chunked, file_path, exc, transcription, output_file, error_logged>>

\* one turn of the cleanup loop: os.remove(chunk_path)
RemoveChunk ==
    /\ pc = "cleanup"
    /\ removed < Len(chunk_paths)
    /\ temp_files' = [p \in DOMAIN temp_files \ {chunk_paths[removed + 1]} |-> temp_files[p]]
    /\ removed' = removed + 1
    /\ UNCHANGED <<inputs, chunks, chunk_paths, futures, completion_order, collected,
                   full_transcription, mainv>>

ReturnTranscription_NoStrip ==
    /\ pc = "cleanup"
    /\ removed = Len(chunk_paths)
    /\ transcription' = full_transcription
    /\ pc' = "save"
    /\ UNCHANGED <<inputs, chunked, file_path, exc, output_file, error_logged>>

\* return full_transcription.strip(), assigned to main's transcription
ReturnTranscription ==
    /\ pc = "cleanup"
    /\ removed = Len(chunk_paths)
    /\ transcription' = Strip(full_transcription)
    /\ pc' = "save"
    /\ UNCHANGED <<inputs, chunked, file_path, exc, output_file, error_logged>>

\* ------------------------------------------------------ pool worker threads
\* a worker takes the oldest queued work item (the queue is FIFO)
StartTask(i) ==
    /\ i \in DOMAIN futures
    /\ futures[i].state = "pending"
    /\ \A j \in 1..(i - 1) : futures[j].state # "pending"
    /\ Cardinality(Running) < max_workers
    /\ futures' = [futures EXCEPT ![i].state = "running"]
    /\ UNCHANGED <<inputs, chunks, chunk_paths, temp_files, completion_order, collected,
                   full_transcription, removed, mainv>>

\* transcribe_audio(chunk_path) ends in the worker: the text, or the exception,
\* is stored in the future
FinishTask(i) ==
    /\ i \in DOMAIN futures
    /\ futures[i].state = "running"
    /\ LET p == futures[i].path
           r == IF p \in DOMAIN temp_files
                THEN transcribe_audio(temp_files[p])
                ELSE [ok |-> FALSE, text |-> <<>>]
       IN  futures' = [futures EXCEPT ![i].state = IF r.ok THEN "done" ELSE "failed",
                                      ![i].text = r.text]
    /\ completion_order' = Append(completion_order, i)
    /\ UNCHANGED <<inputs, chunks, chunk_paths, temp_files, collected,
                   full_transcription, removed, mainv>>

Worker == \E i \in 1..MaxSegments : StartTask(i) \/ FinishTask(i)

Next ==
    \/ ValidateFilePath
    \/ IsLargeFile
    \/ ExtractAudioFromVideo
    \/ ConvertAudioFormat
    \/ NoConversion
    \/ TranscribeAudio
    \/ SaveTranscription
    \/ HandleException
    \/ SplitAudio
    \/ ExportChunk
    \/ ExportDone
    \/ SubmitTask
    \/ SubmitDone
    \/ CollectResult
    \/ CollectDone
    \/ ExecutorExit
    \/ RemoveChunk
    \/ ReturnTranscription
    \/ Worker

Spec == Init /\ [][Next]_vars

\* the pool's threads keep running while there is work; an engine call ends
FairSpec == Spec /\ WF_vars(Worker)

\* --------------------------------------------- split_audio on its own
InitSplit ==
    /\ exists = TRUE
    /\ ext = ".mp3"
    /\ file_size = SizeThresholdMb * BytesPerMb + 1
    /\ duration \in 0..MaxDuration
    /\ chunk_length_ms \in 1..MaxChunkLength
    /\ engine = <<>>
    /\ max_workers = 1
    /\ InitRun
    /\ pc = "split"

NextSplit == SplitAudio

SplitSpec == InitSplit /\ [][NextSplit]_vars

\* ------------------------------------------------------------ properties
InChunkedPath == exists /\ ext \in SupportedExtensions /\ is_large_file(file_size)

\* transcribe_large_audio_parallel has returned to main
ChunkedReturned == InChunkedPath /\ pc \in {"save", "done"} /\ exc = NoError

\* transcribe_large_audio_parallel has raised into main
ChunkedRaised == InChunkedPath /\ pc \in {"except", "done"} /\ exc # NoError

\* the text of each segment, by ordinal
Fragments == [k \in 1..Len(chunks) |-> transcribe_audio(chunks[k]).text]

RECURSIVE JoinSpace(_)
JoinSpace(fs) ==
    IF fs = <<>> THEN <<>>
    ELSE IF Len(fs) = 1 THEN fs[1]
    ELSE fs[1] \o <<" ">> \o JoinSpace(Tail(fs))

CeilDiv(d, c) == IF d % c = 0 THEN d \div c ELSE d \div c + 1

FailedOrdinals == {k \in 1..Len(chunks) : ~transcribe_audio(chunks[k]).ok}

\* C1: whatever the segments' texts and whatever the order in which the tasks
\* end, the returned transcript is the fragments in ascending ordinal order,
\* joined by one space and stripped.
C1_OrdinalOrder ==
    ChunkedReturned => transcription = Strip(JoinSpace(Fragments))

\* a run whose tasks ended out of ordinal order, where joining in completion
\* order would have given another transcript
C1_Witness ==
    /\ ChunkedReturned
    /\ Len(chunks) >= 2
    /\ completion_order[1] # 1
    /\ transcription #
         Strip(JoinSpace([k \in 1..Len(chunks) |-> Fragments[completion_order[k]]]))

\* C2: when the chunked path has finished, by return or by raise, no temporary
\* segment file is left.
C2_CleanupAlways ==
    (ChunkedReturned \/ ChunkedRaised) => DOMAIN temp_files = {}

\* C3 as stated: once the result loop has met a failure, the exception leaves
\* the function without waiting for the other tasks.
C3_NoWaitOnFailure ==
    (pc = "shutdown" /\ exc # NoError) => ENABLED ExecutorExit

\* C3 amended: the exception reaching the caller is that of the failing segment
\* of lowest ordinal, and it arrives only when every submitted task has ended.
C3_FailureAfterAllEnded ==
    ChunkedRaised =>
        /\ Len(futures) = Len(chunks)
        /\ \A i \in DOMAIN futures : futures[i].state \in {"done", "failed"}
        /\ exc.kind = "TranscriptionFailure"
        /\ FailedOrdinals # {}
        /\ exc.ordinal + 1 \in FailedOrdinals
        /\ \A k \in FailedOrdinals : exc.ordinal + 1 <= k

\* a failed first segment whose exception reached main after a later segment
\* had been transcribed
C3_Witness ==
    /\ ChunkedRaised
    /\ Len(futures) >= 2
    /\ exc.ordinal = 0
    /\ completion_order[1] = 1
    /\ futures[2].state = "done"

\* C4: split_audio gives ceil(D/C) segments [i*C, min((i+1)*C, D)), in
\* increasing offset order, partitioning [0, D); only the last may be shorter
\* than C; 0 < D < C gives one segment.
C4_Partition ==
    pc = "export" =>
        LET n == Len(chunks)
            D == duration
            C == chunk_length_ms
        IN  /\ n = CeilDiv(D, C)
            /\ \A k \in 1..n :
                  /\ chunks[k] = <<(k - 1) * C, Min(k * C, D)>>
                  /\ chunks[k][1] < chunks[k][2]
                  /\ k < n => /\ chunks[k][2] - chunks[k][1] = C
                              /\ chunks[k][2] = chunks[k + 1][1]
            /\ n > 0 => chunks[1][1] = 0 /\ chunks[n][2] = D
            /\ (0 < D /\ D < C) => n = 1

\* a split with a shorter last segment
C4_Witness ==
    /\ pc = "export"
    /\ Len(chunks) >= 2
    /\ chunks[Len(chunks)][2] - chunks[Len(chunks)][1] < chunk_length_ms

\* C5: a run that ends in an error has the error caught and logged and writes
\* no output file; the output file is written only after transcription succeeded.
C5_NoOutputOnError ==
    /\ exc # NoError => ~output_file.written /\ pc \in {"shutdown", "except", "done"}
    /\ (pc = "done" /\ exc # NoError) => error_logged
    /\ error_logged => exc # NoError
    /\ output_file.written =>
          /\ pc = "done"
          /\ exc = NoError
          /\ output_file.path = OutputPath(file_path)
          /\ output_file.content = transcription
          /\ InChunkedPath =>
                /\ collected = Len(chunks)
                /\ \A i \in DOMAIN futures : futures[i].state = "done"
          /\ ~InChunkedPath => transcribe_audio(<<0, duration>>).ok

\* a chunked run ended by a segment's transcription failure, logged
C5_Witness ==
    /\ pc = "done"
    /\ error_logged
    /\ InChunkedPath
    /\ exc.kind = "TranscriptionFailure"

\* C6: no submitted task is ever cancelled, and each one that is pending or
\* running eventually ends, done or failed.
C6_AllTasksRun ==
    /\ [](\A i \in DOMAIN futures : futures[i].state # "cancelled")
    /\ \A i \in 1..MaxSegments :
          (i \in DOMAIN futures /\ futures[i].state \in {"pending", "running"})
             ~> (i \in DOMAIN futures /\ futures[i].state \in {"done", "failed"})

\* the result loop has met a failure while another task has not started yet
C6_Witness ==
    /\ pc = "shutdown"
    /\ exc # NoError
    /\ \E i \in DOMAIN futures : futures[i].state = "pending"

\* C7 as stated: for a single segment the chunked transcript is the text the
\* single-shot path returns for the same audio.
C7_RoundTrip ==
    (ChunkedReturned /\ Len(chunks) = 1) =>
        transcription = transcribe_audio(<<0, duration>>).text

\* C7 amended: for a single segment the chunked transcript is the single-shot
\* text stripped of leading and trailing whitespace.
C7_RoundTripStripped ==
    (ChunkedReturned /\ Len(chunks) = 1) =>
        transcription = Strip(transcribe_audio(<<0, duration>>).text)

\* a single-segment run whose engine text carries outer whitespace
C7_Witness ==
    /\ ChunkedReturned
    /\ Len(chunks) = 1
    /\ transcribe_audio(<<0, duration>>).text # transcription

\* C8: a source of zero duration gives no segment, no temporary file, no task
\* and no exception, and the transcript returned is the empty string.
C8_EmptySource ==
    (InChunkedPath /\ duration = 0) =>
        /\ chunks = <<>>
        /\ chunk_paths = <<>>
        /\ DOMAIN temp_files = {}
        /\ futures = <<>>
        /\ exc = NoError
        /\ pc \in {"save", "done"} => transcription = <<>>

\* the chunked path has returned for an empty source and main saved the result
C8_Witness ==
    /\ InChunkedPath
    /\ duration = 0
    /\ pc = "done"
    /\ output_file.written
    /\ output_file.content = <<>>

\* C9: while tasks are being submitted every segment's temporary file is on
\* disk with its own content, and the k-th task submitted is for
\* temp_chunk_<k-1>.mp3.
C9_BatchThenDispatch ==
    /\ (pc = "submit" \/ (futures # <<>> /\ pc \in {"collect", "shutdown"})) =>
          /\ Len(chunk_paths) = Len(chunks)
          /\ \A k \in 1..Len(chunks) :
                /\ TempChunkPath(k - 1) \in DOMAIN temp_files
                /\ temp_files[TempChunkPath(k - 1)] = chunks[k]
    /\ \A k \in DOMAIN futures : futures[k].path = TempChunkPath(k - 1)
    /\ \A j, k \in DOMAIN chunk_paths : j # k => chunk_paths[j] # chunk_paths[k]

\* the first of several tasks has been submitted
C9_Witness ==
    /\ pc = "submit"
    /\ Len(futures) = 1
    /\ Len(chunks) >= 2

\* C10: a temporary file is gone, or the cleanup loop is running, only when
\* every submitted task has ended.
C10_CleanupAfterTasks ==
    (pc = "cleanup" \/ \E k \in DOMAIN chunk_paths : chunk_paths[k] \notin DOMAIN temp_files)
        => /\ Len(futures) = Len(chunk_paths)
           /\ AllFinished

\* the cleanup loop has removed a file of a run with several tasks
C10_Witness ==
    /\ pc = "cleanup"
    /\ removed >= 1
    /\ Len(futures) >= 2

====
